---- MODULE Spec2Model ----
(***************************************************************************)
(* Voice-interaction pipeline of stt_tts: the conversational response      *)
(* engine (src/src/gemma_client.py) and the turn orchestrator              *)
(* (src/src/main.py) over the capture/transcription adapter                *)
(* (src/src/stt_whisper.py) and the synthesis adapter                      *)
(* (src/src/tts_elevenlabs.py).                                            *)
(*                                                                         *)
(* A text is a sequence of characters; " " is the whitespace character, so *)
(* that str.strip() and Python truthiness (non-empty) are computed and not *)
(* assumed.  Fixed message strings of the source are one-token texts.      *)
(***************************************************************************)
EXTENDS Integers, Sequences, FiniteSets, TLC

VARIABLES
    conversation_history,   \* GemmaClient.conversation_history
    log,                    \* ghost: (prompt, reply) pairs appended since the last clear
    last_call,              \* ghost: the last GemmaClient call, its inputs and results
    device_id,              \* WhisperSTT.device_id
    save_recordings,        \* VoiceAssistant.config["save_recordings"]
    session,                \* "unbuilt", "failed", "ready", "interactive", "call", "exited"
    pc,                     \* the stage of the turn in progress, "Idle" when there is none
    turn,                   \* ghost: what the current (or last) turn has done so far
    exit_cause,             \* ghost: why start_interactive_mode left its loop
    farewells,              \* ghost: how often the farewell of line 158 was printed
    adapter_call,           \* ghost: the last direct call on an adapter, inputs and result
    startup                 \* the environment's API keys and how far construction has got

(***************************************************************************)
(* Bounds of the model.                                                    *)
(***************************************************************************)
MaxTurns == 11      \* pairs appended between two clears in Spec
MaxDevices == 3     \* audio devices the platform enumerates
MaxLoopPairs == 2   \* pairs appended in one session of SpecLoop

(***************************************************************************)
(* Program constants.                                                      *)
(***************************************************************************)
max_history == 10   \* _update_conversation_history's default max_history

(***************************************************************************)
(* Texts.                                                                  *)
(***************************************************************************)
EmptyText == << >>

\* the whitespace characters of the texts of the model
Whitespace == {" ", "\n"}

RECURSIVE LStrip(_)
LStrip(t) == IF t # << >> /\ Head(t) \in Whitespace THEN LStrip(Tail(t)) ELSE t

RECURSIVE RStrip(_)
RStrip(t) ==
    IF t # << >> /\ t[Len(t)] \in Whitespace THEN RStrip(SubSeq(t, 1, Len(t) - 1)) ELSE t

\* str.strip()
Strip(t) == RStrip(LStrip(t))

\* Python truthiness of a str or a list: non-empty
Truthy(s) == s # << >>

\* "Sorry, I couldn't generate a response. Please try again."
SorryText == << "Sorry, I couldn't generate a response. Please try again." >>

\* f"An error occurred: {str(e)}"
ErrorText(msg) == << "An error occurred: " >> \o msg

(***************************************************************************)
(* Conversation entries: {"role": r, "parts": [{"text": t}]}.              *)
(***************************************************************************)
UserEntry(t) == [role |-> "user", text |-> t]

ModelEntry(t) == [role |-> "model", text |-> t]

\* the optional context argument: None, or a list of entries
NoContext == [given |-> FALSE, items |-> << >>]

Context(items) == [given |-> TRUE, items |-> items]

\* "if context", "not context": None and [] are both falsy
ContextTruthy(context) == context.given /\ Truthy(context.items)

\* seq[-n:] for n > 0
LastN(seq, n) == IF Len(seq) <= n THEN seq ELSE SubSeq(seq, Len(seq) - n + 1, Len(seq))

(***************************************************************************)
(* GemmaClient._update_conversation_history                                *)
(***************************************************************************)
UpdateKeepsOldest(history, user_input, assistant_response, mh) ==
    LET appended == history \o << UserEntry(user_input), ModelEntry(assistant_response) >>
    IN  IF Len(appended) > mh * 2 THEN SubSeq(appended, 1, mh * 2) ELSE appended

UpdateNoTrim(history, user_input, assistant_response, mh) ==
    history \o << UserEntry(user_input), ModelEntry(assistant_response) >>

UpdateTrimOffByOne(history, user_input, assistant_response, mh) ==
    LET appended == history \o << UserEntry(user_input), ModelEntry(assistant_response) >>
    IN  IF Len(appended) > mh * 2 THEN LastN(appended, mh * 2 - 1) ELSE appended

_update_conversation_history(history, user_input, assistant_response, mh) ==
    LET appended == history \o << UserEntry(user_input), ModelEntry(assistant_response) >>
    IN  IF Len(appended) > mh * 2 THEN LastN(appended, mh * 2) ELSE appended

(***************************************************************************)
(* GemmaClient.generate_response, lines 52-59: the content input.          *)
(* With a truthy context, messages IS the caller's list, which the append  *)
(* changes in place; otherwise messages is a copy of the history, and the  *)
(* append leaves conversation_history alone.  With neither, the bare       *)
(* prompt is sent.                                                         *)
(*   content  what is handed to the engine                                 *)
(*   history  conversation_history after line 55                           *)
(*   context  the caller's context after line 55                           *)
(***************************************************************************)
PrepareContentNoCopy(history, prompt, context) ==
    IF ContextTruthy(context)
    THEN LET messages == Append(context.items, UserEntry(prompt))
         IN  [content |-> [bare |-> FALSE, messages |-> messages, prompt |-> prompt],
              history |-> history,
              context |-> Context(messages)]
    ELSE IF Truthy(history)
    THEN LET messages == Append(history, UserEntry(prompt))
         IN  [content |-> [bare |-> FALSE, messages |-> messages, prompt |-> prompt],
              history |-> messages,
              context |-> context]
    ELSE [content |-> [bare |-> TRUE, messages |-> << >>, prompt |-> prompt],
          history |-> history,
          context |-> context]

\* generate_response building its request from a copy of the context too
PrepareContentCopiesContext(history, prompt, context) ==
    IF ContextTruthy(context) \/ Truthy(history)
    THEN LET messages ==
                 Append(IF ContextTruthy(context) THEN context.items ELSE history,
                        UserEntry(prompt))
         IN  [content |-> [bare |-> FALSE, messages |-> messages, prompt |-> prompt],
              history |-> history,
              context |-> context]
    ELSE [content |-> [bare |-> TRUE, messages |-> << >>, prompt |-> prompt],
          history |-> history,
          context |-> context]

PrepareContentBare(history, prompt, context) ==
    [content |-> [bare |-> TRUE, messages |-> << >>, prompt |-> prompt],
     history |-> history,
     context |-> context]

PrepareContent(history, prompt, context) ==
    IF ContextTruthy(context) \/ Truthy(history)
    THEN LET messages ==
                 Append(IF ContextTruthy(context) THEN context.items ELSE history,
                        UserEntry(prompt))
         IN  [content |-> [bare |-> FALSE, messages |-> messages, prompt |-> prompt],
              history |-> history,
              context |-> IF ContextTruthy(context) THEN Context(messages) ELSE context]
    ELSE [content |-> [bare |-> TRUE, messages |-> << >>, prompt |-> prompt],
          history |-> history,
          context |-> context]

(***************************************************************************)
(* The language-model engine, client.models.generate_content, and the text *)
(* extraction of lines 69-73.  An outcome is what the try block observes:  *)
(* an exception with its message, or the concatenated text parts (empty    *)
(* when there is no candidate or no text part).                            *)
(***************************************************************************)
EngineRaises(msg) == [raised |-> TRUE, msg |-> msg, content_text |-> EmptyText]

EngineReturns(t) == [raised |-> FALSE, msg |-> EmptyText, content_text |-> t]

(***************************************************************************)
(* GemmaClient.generate_response, lines 75-85: the result.                 *)
(***************************************************************************)
FinishResponseIgnoresContext(prepared, prompt, context, outcome) ==
    IF outcome.raised
    THEN [history |-> prepared.history, ret |-> ErrorText(outcome.msg)]
    ELSE IF Truthy(outcome.content_text)
    THEN [history |-> _update_conversation_history(
                          prepared.history, prompt, outcome.content_text, max_history),
          ret |-> Strip(outcome.content_text)]
    ELSE [history |-> prepared.history, ret |-> SorryText]

FinishResponse(prepared, prompt, context, outcome) ==
    IF outcome.raised
    THEN [history |-> prepared.history, ret |-> ErrorText(outcome.msg)]
    ELSE IF Truthy(outcome.content_text)
    THEN [history |-> IF ~ContextTruthy(prepared.context)
                      THEN _update_conversation_history(
                               prepared.history, prompt, outcome.content_text, max_history)
                      ELSE prepared.history,
          ret |-> Strip(outcome.content_text)]
    ELSE [history |-> prepared.history, ret |-> SorryText]

\* GemmaClient.generate_response
generate_response(history, prompt, context, outcome) ==
    LET prepared == PrepareContent(history, prompt, context)
        finished == FinishResponse(prepared, prompt, context, outcome)
    IN  [history |-> finished.history,
         ret     |-> finished.ret,
         context |-> prepared.context,
         content |-> prepared.content]

\* GemmaClient.clear_conversation_history
clear_conversation_history(history) == << >>

(***************************************************************************)
(* Inputs of the client-level specification: direct calls on a GemmaClient *)
(* as in test_gemma_client.                                                *)
(***************************************************************************)
Prompts == { << "a" >>, << "b" >> }

\* what a caller passes as context: nothing, an empty list, a non-empty list
Contexts ==
    { NoContext,
      Context(<< >>),
      Context(<< UserEntry(<< "c" >>), ModelEntry(<< "d" >>) >>) }

\* the engine raises, returns no text, or returns text with leading whitespace
EngineOutcomes ==
    { EngineRaises(<< "boom" >>),
      EngineReturns(EmptyText),
      EngineReturns(<< " ", "x" >>) }

NoCall ==
    [op |-> "none", prompt |-> EmptyText, context_in |-> NoContext,
     outcome |-> EngineReturns(EmptyText), ret |-> EmptyText,
     context_out |-> NoContext,
     content |-> [bare |-> TRUE, messages |-> << >>, prompt |-> EmptyText],
     hist_before |-> << >>]

\* the call appended a pair to conversation_history (lines 75-78)
Appends(context, outcome) ==
    ~outcome.raised /\ Truthy(outcome.content_text) /\ ~ContextTruthy(context)

(***************************************************************************)
(* The capture and transcription adapter, WhisperSTT.                      *)
(***************************************************************************)
NoDevice == -1      \* device_id is None

\* sd.query_devices(): raises, or lists the devices; a device has its number of input
\* channels and the outcome its 0.1 s trial recording has if it is made
QueryRaises == [raised |-> TRUE, devices |-> << >>]

QueryReturns(devices) == [raised |-> FALSE, devices |-> devices]

\* what _find_working_device returns, and the device ids it trialed, in order
Resolved(dev, trials) == [device |-> dev, trials |-> trials]

\* the loop of lines 41-58 without the check of line 42: every device is trialed
RECURSIVE TrialEveryDeviceFrom(_, _, _)
TrialEveryDeviceFrom(devices, i, trials) ==
    IF i > Len(devices) THEN Resolved(NoDevice, trials)
    ELSE IF devices[i].trial_ok THEN Resolved(i - 1, Append(trials, i - 1))
    ELSE TrialEveryDeviceFrom(devices, i + 1, Append(trials, i - 1))

FindAmongAllDevices(query) ==
    IF query.raised THEN Resolved(NoDevice, << >>)
    ELSE TrialEveryDeviceFrom(query.devices, 1, << >>)

\* _find_working_device, lines 41-65: the loop from the i-th enumerated device on
\* (enumerate counts from 0, so that device has id i - 1)
RECURSIVE FindFrom(_, _, _)
FindFrom(devices, i, trials) ==
    IF i > Len(devices) THEN Resolved(NoDevice, trials)
    ELSE IF devices[i].inputs > 0
    THEN IF devices[i].trial_ok
         THEN Resolved(i - 1, Append(trials, i - 1))
         ELSE FindFrom(devices, i + 1, Append(trials, i - 1))
    ELSE FindFrom(devices, i + 1, trials)

\* WhisperSTT._find_working_device
_find_working_device(query) ==
    IF query.raised THEN Resolved(NoDevice, << >>)
    ELSE FindFrom(query.devices, 1, << >>)

\* record_audio without the check of lines 81-82: sd.rec is called with device=None
RecordStartUnguarded(dev) == [raised |-> FALSE, engine_called |-> TRUE]

\* record_audio, lines 81-94: a null device raises before sd.rec is called
RecordStart(dev) ==
    IF dev = NoDevice
    THEN [raised |-> TRUE, engine_called |-> FALSE]
    ELSE [raised |-> FALSE, engine_called |-> TRUE]

\* record_audio, lines 95-102: the buffer, or None when sd.rec / sd.wait raised
RecordFinish(rec_outcome) == IF rec_outcome = "raise" THEN "None" ELSE "buffer"

\* a record_audio that probes for a device again whenever it has recorded
DeviceReprobedEachRecording(dev, rec_outcome) == 0

\* record_audio, lines 71-102: self.device_id is read (lines 81, 85, 93), never assigned
DeviceAfterRecording(dev, rec_outcome) == dev

\* WhisperSTT.record_audio as one call: whether it raised, how often sd.rec was
\* called, and what it returned ("None" also when it raised and returned nothing)
record_audio(dev, rec_outcome) ==
    LET st == RecordStart(dev)
    IN  [raised |-> st.raised,
         engine_calls |-> IF st.engine_called THEN 1 ELSE 0,
         ret |-> IF st.raised THEN "None" ELSE RecordFinish(rec_outcome)]

\* what the recognition engine does with the audio: raises, or returns result["text"]
SttRaises == [raised |-> TRUE, text |-> EmptyText]

SttReturns(t) == [raised |-> FALSE, text |-> t]

\* transcribe_audio without its try/except: what is raised inside reaches the caller
TranscribeUnprotected(audio_data, audio_path, stt_outcome) ==
    LET has_input == audio_path = "exists" \/ audio_data # "None"
    IN  [engine_called |-> has_input,
         raised |-> ~has_input \/ stt_outcome.raised,
         text |-> IF has_input /\ ~stt_outcome.raised
                  THEN Strip(stt_outcome.text)
                  ELSE EmptyText]

\* transcribe_audio, lines 115-129: audio_path is "None", "missing" or "exists".
\* The ValueError of line 123 and whatever the engine raises are caught at line 127.
transcribe_audio(audio_data, audio_path, stt_outcome) ==
    LET has_input == audio_path = "exists" \/ audio_data # "None"
    IN  [engine_called |-> has_input,
         raised |-> FALSE,
         text |-> IF has_input /\ ~stt_outcome.raised
                  THEN Strip(stt_outcome.text)
                  ELSE EmptyText]

(***************************************************************************)
(* The batch content generation of GeminiService.  A business_info is the  *)
(* dict's entries that the code reads: "name", "product" (a dict with a    *)
(* "name", when present) and "tone"; Absent stands for a missing key.  The *)
(* static Korean text of the templates is rendered by English words; the   *)
(* pieces of a formatted string are the elements of a sequence.            *)
(***************************************************************************)
Absent == "<absent>"

\* dict.get(key, default)
GetOr(value, default) == IF value = Absent THEN default ELSE value

\* business_info.get("product", {}).get("name", "상품")
ProductName(business_info) ==
    IF business_info.product.present
    THEN GetOr(business_info.product.name, "product")
    ELSE "product"

\* the dict literals of lines 341-369
FallbackCopy(title, content, word_count) ==
    [title |-> title,
     content |-> content,
     performance_metrics |-> [generation_time |-> "0.1", word_count |-> word_count]]

\* a fallback whose copy follows the tone of the business as the prompts do
FallbackWithTone(business_info, content_type) ==
    FallbackCopy(<< GetOr(business_info.name, "our business"), " - ",
                    ProductName(business_info) >>,
                 << GetOr(business_info.tone, "friendly"), " copy for ",
                    GetOr(business_info.name, "our business") >>,
                 10)

\* GeminiService._get_fallback_content
_get_fallback_content(business_info, content_type) ==
    LET business_name == GetOr(business_info.name, "our business")
        product_name == ProductName(business_info)
    IN  CASE content_type = "blog" ->
                 FallbackCopy(<< business_name, "'s ", product_name, " introduction" >>,
                              << business_name, " presents ", product_name,
                                 ". Quality service. Contact us now!" >>,
                              30)
          [] content_type = "instagram" ->
                 FallbackCopy(<< product_name, " new release!" >>,
                              << business_name, "'s ", product_name,
                                 ": meet it! Special offers. DM us now!" >>,
                              25)
          [] content_type = "youtube" ->
                 FallbackCopy(<< product_name, " review - ", business_name >>,
                              << "Hello! Today we present ", business_name, "'s ",
                                 product_name, ". Like and subscribe!" >>,
                              35)
          [] content_type = "flyer" ->
                 FallbackCopy(<< business_name, " special promotion" >>,
                              << "[Special discount] ", product_name,
                                 " promotion. 20% off this week." >>,
                              25)
          [] OTHER ->
                 FallbackCopy(<< business_name, " - ", product_name >>,
                              << business_name, "'s ", product_name, " introduced." >>,
                              10)

\* content_text.strip().split('\n')[0]
FirstLine(text) ==
    LET stripped == Strip(text)
        breaks == { i \in 1..Len(stripped) : stripped[i] = "\n" }
    IN  IF breaks = { } THEN stripped
        ELSE SubSeq(stripped, 1, (CHOOSE i \in breaks : \A j \in breaks : i <= j) - 1)

\* title.replace('#', '').replace('*', '')
IsTitleChar(c) == c \notin {"#", "*"}

\* len(content_text.split())
WordCount(text) ==
    Cardinality({ i \in 1..Len(text) :
                    /\ text[i] \notin Whitespace
                    /\ (i = 1 \/ text[i - 1] \in Whitespace) })

\* GeminiService._format_content; estimated_read_time is word_count / 200
_format_content(content_text, content_type, business_info) ==
    [title |-> Strip(SelectSeq(FirstLine(content_text), IsTitleChar)),
     content |-> content_text,
     performance_metrics |->
         [generation_time |-> "0.5",
          word_count |-> WordCount(content_text),
          estimated_read_time |-> [num |-> WordCount(content_text), den |-> 200]]]

\* what client.models.generate_content does for the batch service: raises, returns
\* a response without candidates (candidates[0] then raises), or returns text parts
BatchRaises(msg) ==
    [raised |-> TRUE, msg |-> msg, no_candidates |-> FALSE, content_text |-> EmptyText]

BatchNoCandidates ==
    [raised |-> FALSE, msg |-> "", no_candidates |-> TRUE, content_text |-> EmptyText]

BatchReturns(t) ==
    [raised |-> FALSE, msg |-> "", no_candidates |-> FALSE, content_text |-> t]

\* the try block of lines 26-44 fails
BatchFailed(outcome) == outcome.raised \/ outcome.no_candidates

\* GeminiService.generate_content: the record returned, the calls of the engine made,
\* and whether the fallback produced the record
generate_content(business_info, content_type, target_audience, outcome) ==
    IF BatchFailed(outcome)
    THEN [output |-> _get_fallback_content(business_info, content_type),
          engine_calls |-> 1, raised |-> FALSE, fallback |-> TRUE]
    ELSE [output |-> _format_content(outcome.content_text, content_type, business_info),
          engine_calls |-> 1, raised |-> FALSE, fallback |-> FALSE]

(***************************************************************************)
(* The synthesis adapter, ElevenLabsTTS.                                   *)
(*                                                                         *)
(* The engine (client.text_to_speech.convert / .stream) raises when it is  *)
(* called, or returns an iterator of audio chunks, which may raise after   *)
(* the chunks it yields.  An iterator is pulled by a sink: the file        *)
(* writer, the in-memory join, or the player.                              *)
(***************************************************************************)
TtsRaises == [raised |-> TRUE, chunks |-> << >>, breaks |-> FALSE]

TtsYields(chunks, breaks) == [raised |-> FALSE, chunks |-> chunks, breaks |-> breaks]

\* what text_to_speech returns: None, the engine's iterator, or joined bytes
NoAudio == [none |-> TRUE, kind |-> "none", chunks |-> << >>, breaks |-> FALSE]

AudioIterator(chunks, breaks) ==
    [none |-> FALSE, kind |-> "iterator", chunks |-> chunks, breaks |-> breaks]

AudioBytes(chunks) == [none |-> FALSE, kind |-> "bytes", chunks |-> chunks, breaks |-> FALSE]

\* "if audio", "if not audio_data": None and b"" are falsy, an iterator object is not
AudioTruthy(audio) == ~audio.none /\ (audio.kind = "bytes" => Truthy(audio.chunks))

\* the outcome of one adapter call
TtsResult(ret, engine_calls, file, memory, player, sinks, raised, played) ==
    [ret |-> ret,                   \* the return value (speak returns None)
     engine_calls |-> engine_calls, \* calls of convert / stream
     file |-> file,                 \* chunks written to save_path
     memory |-> memory,             \* chunks pulled by the in-memory join
     player |-> player,             \* chunks pulled by play / stream
     sinks |-> sinks,               \* the sinks that pulled the iterator
     raised |-> raised,             \* an exception left the adapter
     played |-> played]             \* the audio was played to its end

\* text_to_speech, lines 112-131 under the except of line 151: streamed mode
StreamedSaveFallsThrough(save_path, eng, file_ok) ==
    IF eng.raised
    THEN TtsResult(NoAudio, 1, << >>, << >>, << >>, { }, FALSE, FALSE)
    ELSE IF save_path # "None" /\ ~file_ok
    THEN TtsResult(NoAudio, 1, << >>, << >>, << >>, { }, FALSE, FALSE)
    ELSE IF save_path # "None"
    THEN TtsResult(IF eng.breaks THEN NoAudio ELSE AudioBytes(<< >>), 1,
                   eng.chunks, << >>, << >>,
                   IF eng.breaks THEN {"file"} ELSE {"file", "memory"}, FALSE, FALSE)
    ELSE TtsResult(IF eng.breaks THEN NoAudio ELSE AudioBytes(eng.chunks), 1,
                   << >>, eng.chunks, << >>, {"memory"}, FALSE, FALSE)

StreamedSynthesis(save_path, eng, file_ok) ==
    IF eng.raised
    THEN TtsResult(NoAudio, 1, << >>, << >>, << >>, { }, FALSE, FALSE)
    ELSE IF save_path # "None" /\ ~file_ok
    THEN TtsResult(NoAudio, 1, << >>, << >>, << >>, { }, FALSE, FALSE)
    ELSE IF save_path # "None"
    THEN TtsResult(NoAudio, 1, eng.chunks, << >>, << >>, {"file"}, FALSE, FALSE)
    ELSE TtsResult(IF eng.breaks THEN NoAudio ELSE AudioBytes(eng.chunks), 1,
                   << >>, eng.chunks, << >>, {"memory"}, FALSE, FALSE)

\* text_to_speech, lines 132-149 under the except of line 151: buffered mode.
\* With a save_path the iterator is drained into the file and then returned.
BufferedSynthesis(save_path, eng, file_ok) ==
    IF eng.raised
    THEN TtsResult(NoAudio, 1, << >>, << >>, << >>, { }, FALSE, FALSE)
    ELSE IF save_path # "None" /\ ~file_ok
    THEN TtsResult(NoAudio, 1, << >>, << >>, << >>, { }, FALSE, FALSE)
    ELSE IF save_path # "None"
    THEN TtsResult(IF eng.breaks THEN NoAudio ELSE AudioIterator(<< >>, FALSE), 1,
                   eng.chunks, << >>, << >>, {"file"}, FALSE, FALSE)
    ELSE TtsResult(AudioIterator(eng.chunks, eng.breaks), 1,
                   << >>, << >>, << >>, { }, FALSE, FALSE)

\* ElevenLabsTTS.text_to_speech
text_to_speech(text, save_path, stream_audio, eng, file_ok) ==
    IF ~Truthy(Strip(text))
    THEN TtsResult(NoAudio, 0, << >>, << >>, << >>, { }, FALSE, FALSE)
    ELSE IF stream_audio
    THEN StreamedSynthesis(save_path, eng, file_ok)
    ELSE BufferedSynthesis(save_path, eng, file_ok)

\* ElevenLabsTTS.speak, lines 183-190: streamed mode, outside any try
SpeakStreamed(text, eng, play_ok) ==
    IF eng.raised
    THEN TtsResult(NoAudio, 1, << >>, << >>, << >>, { }, TRUE, FALSE)
    ELSE TtsResult(NoAudio, 1, << >>, << >>, eng.chunks, {"player"},
                   eng.breaks \/ ~play_ok, ~eng.breaks /\ play_ok)

\* ElevenLabsTTS.speak, lines 191-195, with play_audio, lines 162-171: buffered mode
SpeakBuffered(text, eng, play_ok) ==
    LET t == text_to_speech(text, "None", FALSE, eng, TRUE)
    IN  IF AudioTruthy(t.ret)
        THEN TtsResult(NoAudio, t.engine_calls, << >>, << >>, t.ret.chunks,
                       t.sinks \cup {"player"}, FALSE, ~t.ret.breaks /\ play_ok)
        ELSE TtsResult(NoAudio, t.engine_calls, << >>, << >>, << >>, t.sinks, FALSE, FALSE)

\* speak with the streamed branch's unprotected calls in both modes
SpeakUnprotected(text, stream_audio, eng, play_ok) == SpeakStreamed(text, eng, play_ok)

\* ElevenLabsTTS.speak
speak(text, stream_audio, eng, play_ok) ==
    IF stream_audio
    THEN SpeakStreamed(text, eng, play_ok)
    ELSE SpeakBuffered(text, eng, play_ok)

(***************************************************************************)
(* The turn orchestrator, VoiceAssistant.                                  *)
(***************************************************************************)
\* the return value of process_voice_input, once it has returned
NotReturned == [returned |-> FALSE, none |-> TRUE, text |-> EmptyText]

ReturnsNone == [returned |-> TRUE, none |-> TRUE, text |-> EmptyText]

Returns(t) == [returned |-> TRUE, none |-> FALSE, text |-> t]

NoTurn ==
    [source |-> "none",         \* "mic", or the pre-supplied "data" / "path_exists" / "path_missing"
     stages |-> << >>,           \* the stages entered, in order
     completed |-> 0,            \* how many of them ran to their end
     rec_engine_calls |-> 0,     \* sd.rec
     rec_raised |-> FALSE,       \* sd.rec / sd.wait raised
     save_calls |-> 0,           \* stt.save_audio
     stt_calls |-> 0,            \* stt.transcribe_audio
     llm_calls |-> 0,            \* llm.generate_response
     tts_calls |-> 0,            \* tts.speak
     transcribed |-> FALSE,
     stt_raised |-> FALSE,       \* the recognition engine raised
     text |-> EmptyText,         \* the transcript
     gen |-> "none",             \* the engine's outcome: "raised", "no_text", "text"
     response |-> EmptyText,     \* what generate_response returned
     audio_failed |-> FALSE,     \* the synthesis engine or the player failed
     spoken |-> FALSE,           \* audio was played to its end
     result |-> NotReturned,
     ended |-> "not_started",    \* how the turn ended, "running" while it has not
     prev_ended |-> "none",      \* how the turn before it ended
     prev_gen |-> "none"]        \* the engine's outcome in the turn before it

\* start_interactive_mode, lines 135-144: after record_audio returned
AfterRecordingRetries(audio_data, save) ==
    IF audio_data = "None" THEN "Recording"
    ELSE IF save THEN "Persisting" ELSE "Transcribing"

\* the loop without the check of line 135: the turn goes on with audio_data = None
AfterRecordingIgnoresNone(audio_data, save) ==
    IF save THEN "Persisting" ELSE "Transcribing"

\* the loop without the check of line 137: the recording is never persisted
AfterRecordingNeverPersists(audio_data, save) ==
    IF audio_data = "None" THEN "Idle" ELSE "Transcribing"

AfterRecording(audio_data, save) ==
    IF audio_data = "None" THEN "Idle"
    ELSE IF save THEN "Persisting" ELSE "Transcribing"

\* start_interactive_mode, lines 138-141: os.makedirs may raise (caught at line 149);
\* save_audio absorbs a failed write
AfterPersist(persist_outcome) ==
    IF persist_outcome = "makedirs_raise" THEN "Idle" ELSE "Transcribing"

\* process_voice_input, lines 90-98
AfterTranscribeAlways(text) == "Generating"

AfterTranscribe(text) == IF ~Truthy(text) THEN "Idle" ELSE "Generating"

\* process_voice_input, lines 104-112
AfterGenerate(response) == IF ~Truthy(response) THEN "Idle" ELSE "Speaking"

\* process_voice_input, lines 112-118: what it returns once tts.speak is over
AfterSpeak(speak_raised, response) ==
    IF speak_raised THEN ReturnsNone ELSE Returns(response)

\* how a turn that reached tts.speak ends
SpeakEnding(r) ==
    IF r.raised THEN "voice_error"
    ELSE IF r.played THEN "done" ELSE "synthesis_failed"

\* start_interactive_mode, lines 135 and 149-151: what the loop does after a turn
\* that ended in the given way
LoopAfterBreaksOnError(how) ==
    IF how \in {"device_unavailable", "persist_error"} THEN "break" ELSE "continue"

LoopAfter(how) == "continue"

\* KeyboardInterrupt is a BaseException: no "except Exception" of the pipeline holds
\* it back, so it reaches line 146 from whatever stage is running
InterruptDeferred(stage) == stage = "Idle"

InterruptibleAt(stage) == TRUE

\* the audio a turn hands to transcribe_audio
AudioData(source) == IF source \in {"mic", "data"} THEN "buffer" ELSE "None"

AudioPath(source) ==
    IF source = "path_exists" THEN "exists"
    ELSE IF source = "path_missing" THEN "missing" ELSE "None"

(***************************************************************************)
(* Inputs of the session-level specification.                              *)
(***************************************************************************)
RecOutcomes == {"ok", "raise"}

PersistOutcomes == {"saved", "write_failed", "makedirs_raise"}

SttOutcomes ==
    { SttRaises, SttReturns(EmptyText), SttReturns(<< " " >>),
      SttReturns(<< " ", "a" >>), SttReturns(<< "b" >>) }

LoopEngineOutcomes ==
    { EngineRaises(<< "boom" >>), EngineReturns(EmptyText),
      EngineReturns(<< " " >>), EngineReturns(<< " ", "x" >>) }

\* what the synthesis engine does when it is called
TtsEngineOutcomes ==
    { TtsRaises, TtsYields(<< "c1", "c2" >>, FALSE), TtsYields(<< "c1" >>, TRUE) }

SpeakOutcomes == [eng : TtsEngineOutcomes, play_ok : BOOLEAN]

PreSupplied == {"data", "path_exists", "path_missing"}

GenKind(outcome) ==
    IF outcome.raised THEN "raised"
    ELSE IF Truthy(outcome.content_text) THEN "text" ELSE "no_text"

\* the devices a platform may list: without input channels (whether or not a trial
\* on them would work), with input channels and a failing or a working trial
DeviceKinds ==
    { [inputs |-> 0, trial_ok |-> TRUE], [inputs |-> 0, trial_ok |-> FALSE],
      [inputs |-> 1, trial_ok |-> FALSE], [inputs |-> 2, trial_ok |-> TRUE] }

DeviceLists == UNION { [1..n -> DeviceKinds] : n \in 0..MaxDevices }

DeviceQueries == {QueryRaises} \cup { QueryReturns(d) : d \in DeviceLists }

\* the inputs of the batch content generation
NoBusinessInfo ==
    [name |-> Absent, product |-> [present |-> FALSE, name |-> Absent], tone |-> Absent]

BusinessInfos ==
    [name : {Absent, "Cafe"},
     product : { [present |-> FALSE, name |-> Absent],
                 [present |-> TRUE, name |-> Absent],
                 [present |-> TRUE, name |-> "Latte"] },
     tone : {Absent, "formal"}]

ContentTypes == {"blog", "instagram", "youtube", "flyer", "newsletter"}

Audiences == {Absent, "teens"}

BatchOutcomes ==
    { BatchRaises("boom"), BatchRaises("quota"), BatchNoCandidates,
      BatchReturns(EmptyText),
      BatchReturns(<< "\n", "#", " ", "T", "*", " ", "\n", "b", " ", "c" >>) }

\* the inputs of the synthesis adapter
TtsTexts == { EmptyText, << " " >>, << "h", "i" >> }

SavePaths == {"None", "out.mp3"}

NoAdapterCall ==
    [op |-> "none", text |-> EmptyText, save_path |-> "None", stream_audio |-> FALSE,
     audio_data |-> "None", audio_path |-> "None", engine_raised |-> FALSE,
     chunks |-> << >>, breaks |-> FALSE, file_ok |-> TRUE, play_ok |-> TRUE,
     raised |-> FALSE, engine_calls |-> 0, ret |-> NoAudio, transcript |-> EmptyText,
     file |-> << >>, memory |-> << >>, player |-> << >>, sinks |-> { }, played |-> FALSE,
     device |-> NoDevice, recorded |-> "None", devices |-> << >>, trials |-> << >>,
     business_info |-> NoBusinessInfo, content_type |-> "none", target_audience |-> Absent,
     batch_outcome |-> BatchReturns(EmptyText), fallback |-> FALSE,
     output |-> FallbackCopy(<< >>, << >>, 0)]

\* construction, VoiceAssistant._initialize_components: the keys the environment
\* holds, the constructor to run next, the components built so far in order, the
\* calls of whisper.load_model and of _find_working_device, and what failed
NotConstructed(google_key, eleven_key) ==
    [google_key |-> google_key, eleven_key |-> eleven_key, stage |-> "stt",
     components |-> << >>, model_loads |-> 0, probes |-> 0, error |-> "none"]

Constructed ==
    [google_key |-> TRUE, eleven_key |-> TRUE, stage |-> "built",
     components |-> << "stt", "llm", "tts" >>, model_loads |-> 1, probes |-> 1,
     error |-> "none"]

\* what sd.query_devices() may list while the assistant is constructed
StartupQueries ==
    { QueryRaises,
      QueryReturns(<< >>),
      QueryReturns(<< [inputs |-> 2, trial_ok |-> TRUE] >>),
      QueryReturns(<< [inputs |-> 0, trial_ok |-> TRUE], [inputs |-> 2, trial_ok |-> TRUE] >>) }

vars ==
    << conversation_history, log, last_call, device_id, save_recordings,
       session, pc, turn, exit_cause, farewells, adapter_call, startup >>

client_vars == << conversation_history, log, last_call >>

session_vars ==
    << device_id, save_recordings, session, pc, turn, exit_cause, farewells, adapter_call,
       startup >>

\* a GemmaClient after construction, used directly
Init ==
    /\ conversation_history = << >>
    /\ log = << >>
    /\ last_call = NoCall
    /\ device_id = NoDevice
    /\ save_recordings = TRUE
    /\ session = "ready"
    /\ pc = "Idle"
    /\ turn = NoTurn
    /\ exit_cause = "none"
    /\ farewells = 0
    /\ adapter_call = NoAdapterCall
    /\ startup = Constructed

\* client.generate_response(prompt, context)
CallGenerate ==
    \E prompt \in Prompts, context \in Contexts, outcome \in EngineOutcomes :
        LET r == generate_response(conversation_history, prompt, context, outcome)
        IN  /\ Appends(context, outcome) => Len(log) < MaxTurns
            /\ conversation_history' = r.history
            /\ log' = IF Appends(context, outcome)
                      THEN Append(log, << prompt, outcome.content_text >>)
                      ELSE log
            /\ last_call' =
                   [op |-> "generate", prompt |-> prompt, context_in |-> context,
                    outcome |-> outcome, ret |-> r.ret, context_out |-> r.context,
                    content |-> r.content, hist_before |-> conversation_history]
            /\ UNCHANGED session_vars

\* client.clear_conversation_history()
CallClear ==
    /\ conversation_history' = clear_conversation_history(conversation_history)
    /\ log' = << >>
    /\ last_call' = [NoCall EXCEPT !.op = "clear", !.hist_before = conversation_history]
    /\ UNCHANGED session_vars

Next == CallGenerate \/ CallClear

Spec == Init /\ [][Next]_vars

(***************************************************************************)
(* Direct calls on a GemmaClient with every kind of engine reply: text     *)
(* with or without surrounding whitespace, whitespace alone, and text that *)
(* reads like the client's own failure messages.                           *)
(***************************************************************************)
RichEngineOutcomes ==
    { EngineRaises(<< "boom" >>),
      EngineReturns(EmptyText),
      EngineReturns(<< " " >>),
      EngineReturns(<< " ", "x" >>),
      EngineReturns(ErrorText(<< "boom" >>)),
      EngineReturns(SorryText) }

\* client.generate_response(prompt, context)
CallGenerateRich ==
    \E prompt \in Prompts, context \in Contexts, outcome \in RichEngineOutcomes :
        LET r == generate_response(conversation_history, prompt, context, outcome)
        IN  /\ Appends(context, outcome) => Len(log) < MaxLoopPairs
            /\ conversation_history' = r.history
            /\ log' = IF Appends(context, outcome)
                      THEN Append(log, << prompt, outcome.content_text >>)
                      ELSE log
            /\ last_call' =
                   [op |-> "generate", prompt |-> prompt, context_in |-> context,
                    outcome |-> outcome, ret |-> r.ret, context_out |-> r.context,
                    content |-> r.content, hist_before |-> conversation_history]
            /\ UNCHANGED session_vars

NextCalls == CallGenerateRich \/ CallClear

SpecCalls == Init /\ [][NextCalls]_vars

(***************************************************************************)
(* Direct calls on the adapters, as in test_whisper and test_elevenlabs.   *)
(***************************************************************************)
\* stt.transcribe_audio(audio_data, audio_path)
CallTranscribe ==
    /\ \E audio_data \in {"None", "buffer"}, audio_path \in {"None", "missing", "exists"},
          o \in SttOutcomes :
           LET t == transcribe_audio(audio_data, audio_path, o)
           IN  adapter_call' =
                   [NoAdapterCall EXCEPT
                      !.op = "transcribe_audio", !.audio_data = audio_data,
                      !.audio_path = audio_path, !.engine_raised = o.raised,
                      !.engine_calls = IF t.engine_called THEN 1 ELSE 0,
                      !.raised = t.raised, !.transcript = t.text]
    /\ UNCHANGED << client_vars, device_id, save_recordings, session, pc, turn,
                    exit_cause, farewells, startup >>

TtsCallRecord(op, text, save_path, stream_audio, eng, file_ok, play_ok, r) ==
    [NoAdapterCall EXCEPT
       !.op = op, !.text = text, !.save_path = save_path, !.stream_audio = stream_audio,
       !.engine_raised = eng.raised, !.chunks = eng.chunks, !.breaks = eng.breaks,
       !.file_ok = file_ok, !.play_ok = play_ok,
       !.raised = r.raised, !.engine_calls = r.engine_calls, !.ret = r.ret,
       !.file = r.file, !.memory = r.memory, !.player = r.player, !.sinks = r.sinks,
       !.played = r.played]

\* tts.text_to_speech(text, save_path=..., stream_audio=...)
CallTextToSpeech ==
    /\ \E text \in TtsTexts, save_path \in SavePaths, stream_audio \in BOOLEAN,
          eng \in TtsEngineOutcomes, file_ok \in BOOLEAN :
           adapter_call' =
               TtsCallRecord("text_to_speech", text, save_path, stream_audio, eng, file_ok, TRUE,
                             text_to_speech(text, save_path, stream_audio, eng, file_ok))
    /\ UNCHANGED << client_vars, device_id, save_recordings, session, pc, turn,
                    exit_cause, farewells, startup >>

\* tts.speak(text, stream_audio=...)
CallSpeak ==
    /\ \E text \in TtsTexts, stream_audio \in BOOLEAN,
          eng \in TtsEngineOutcomes, play_ok \in BOOLEAN :
           adapter_call' =
               TtsCallRecord("speak", text, "None", stream_audio, eng, TRUE, play_ok,
                             speak(text, stream_audio, eng, play_ok))
    /\ UNCHANGED << client_vars, device_id, save_recordings, session, pc, turn,
                    exit_cause, farewells, startup >>

\* stt.record_audio(duration), on an adapter whose device was resolved or was not
CallRecord ==
    /\ \E dev \in {NoDevice, 0}, o \in RecOutcomes :
           LET r == record_audio(dev, o)
           IN  adapter_call' =
                   [NoAdapterCall EXCEPT
                      !.op = "record_audio", !.device = dev,
                      !.engine_raised = (o = "raise"),
                      !.engine_calls = r.engine_calls,
                      !.raised = r.raised, !.recorded = r.ret]
    /\ UNCHANGED << client_vars, device_id, save_recordings, session, pc, turn,
                    exit_cause, farewells, startup >>

\* stt._find_working_device(), as WhisperSTT.__init__ calls it
CallFindWorkingDevice ==
    /\ \E q \in DeviceQueries :
           LET r == _find_working_device(q)
           IN  adapter_call' =
                   [NoAdapterCall EXCEPT
                      !.op = "_find_working_device", !.devices = q.devices,
                      !.engine_raised = q.raised,
                      !.device = r.device, !.trials = r.trials]
    /\ UNCHANGED << client_vars, device_id, save_recordings, session, pc, turn,
                    exit_cause, farewells, startup >>

\* await service.generate_content(business_info, content_type, target_audience)
CallGenerateContent ==
    /\ \E business_info \in BusinessInfos, content_type \in ContentTypes,
          target_audience \in Audiences, o \in BatchOutcomes :
           LET r == generate_content(business_info, content_type, target_audience, o)
           IN  adapter_call' =
                   [NoAdapterCall EXCEPT
                      !.op = "generate_content", !.business_info = business_info,
                      !.content_type = content_type, !.target_audience = target_audience,
                      !.batch_outcome = o, !.engine_raised = BatchFailed(o),
                      !.engine_calls = r.engine_calls, !.raised = r.raised,
                      !.fallback = r.fallback, !.output = r.output]
    /\ UNCHANGED << client_vars, device_id, save_recordings, session, pc, turn,
                    exit_cause, farewells, startup >>

NextAdapters ==
    \/ CallTranscribe
    \/ CallTextToSpeech
    \/ CallSpeak
    \/ CallRecord
    \/ CallFindWorkingDevice
    \/ CallGenerateContent

SpecAdapters == Init /\ [][NextAdapters]_vars

(***************************************************************************)
(* The session: a VoiceAssistant after construction, driven by             *)
(* start_interactive_mode or by direct process_voice_input calls.          *)
(***************************************************************************)
InitLoop ==
    /\ conversation_history = << >>
    /\ log = << >>
    /\ last_call = NoCall
    /\ device_id \in {NoDevice, 0}
    /\ save_recordings \in BOOLEAN
    /\ session = "ready"
    /\ pc = "Idle"
    /\ turn = NoTurn
    /\ exit_cause = "none"
    /\ farewells = 0
    /\ adapter_call = NoAdapterCall
    /\ startup = Constructed

\* the turn is over in the given way: the loop goes on (or the direct call returns)
EndTurn(how) ==
    IF session = "interactive" /\ LoopAfter(how) = "break"
    THEN /\ session' = "exited"
         /\ exit_cause' = how
         /\ farewells' = farewells + 1
    ELSE /\ session' = IF session = "call" THEN "ready" ELSE session
         /\ UNCHANGED << exit_cause, farewells >>

\* the turn goes on to the next stage, or ends when that is "Idle"
Advance(next, how) ==
    /\ pc' = next
    /\ IF next = "Idle"
       THEN EndTurn(how)
       ELSE UNCHANGED << session, exit_cause, farewells >>

\* main(): assistant.start_interactive_mode()
StartInteractive ==
    /\ session = "ready"
    /\ pc = "Idle"
    /\ session' = "interactive"
    /\ UNCHANGED << client_vars, device_id, save_recordings, pc, turn, exit_cause, farewells,
                    adapter_call, startup >>

\* loop head, line 133: stt.record_audio is called
BeginRecording ==
    /\ session = "interactive"
    /\ pc = "Idle"
    /\ LET st == RecordStart(device_id)
       IN  IF st.raised
           THEN /\ turn' = [NoTurn EXCEPT !.source = "mic", !.ended = "device_unavailable",
                                          !.prev_ended = turn.ended, !.prev_gen = turn.gen]
                /\ Advance("Idle", "device_unavailable")
           ELSE /\ turn' = [NoTurn EXCEPT !.source = "mic", !.stages = << "Recording" >>,
                                          !.rec_engine_calls = 1, !.ended = "running",
                                          !.prev_ended = turn.ended, !.prev_gen = turn.gen]
                /\ Advance("Recording", "running")
    /\ UNCHANGED << client_vars, device_id, save_recordings, adapter_call, startup >>

\* record_audio returns; lines 135-144
RecordingDone ==
    /\ pc = "Recording"
    /\ \E o \in RecOutcomes :
           LET next == AfterRecording(RecordFinish(o), save_recordings)
           IN  /\ turn' = [turn EXCEPT
                      !.completed = @ + 1,
                      !.stages = IF next = "Idle" THEN @ ELSE Append(@, next),
                      !.rec_engine_calls = IF next = "Recording" THEN @ + 1 ELSE @,
                      !.rec_raised = (o = "raise"),
                      !.stt_calls = IF next = "Transcribing" THEN @ + 1 ELSE @,
                      !.ended = IF next = "Idle" THEN "capture_error" ELSE @]
               /\ device_id' = DeviceAfterRecording(device_id, o)
               /\ Advance(next, "capture_error")
    /\ UNCHANGED << client_vars, save_recordings, adapter_call, startup >>

\* lines 138-141: the recording is persisted, then process_voice_input is called
PersistDone ==
    /\ pc = "Persisting"
    /\ \E o \in PersistOutcomes :
           LET next == AfterPersist(o)
           IN  /\ turn' = [turn EXCEPT
                      !.completed = @ + 1,
                      !.stages = IF next = "Idle" THEN @ ELSE Append(@, next),
                      !.save_calls = IF o = "makedirs_raise" THEN @ ELSE @ + 1,
                      !.stt_calls = IF next = "Transcribing" THEN @ + 1 ELSE @,
                      !.ended = IF next = "Idle" THEN "persist_error" ELSE @]
               /\ Advance(next, "persist_error")
    /\ UNCHANGED << client_vars, device_id, save_recordings, adapter_call, startup >>

\* process_voice_input(audio_data=...) or (audio_path=...) called directly, as in file mode
DirectCall ==
    /\ session = "ready"
    /\ pc = "Idle"
    /\ \E src \in PreSupplied :
           turn' = [NoTurn EXCEPT !.source = src, !.stages = << "Transcribing" >>,
                                  !.stt_calls = 1, !.ended = "running",
                                  !.prev_ended = turn.ended, !.prev_gen = turn.gen]
    /\ session' = "call"
    /\ pc' = "Transcribing"
    /\ UNCHANGED << client_vars, device_id, save_recordings, exit_cause, farewells,
                    adapter_call, startup >>

\* process_voice_input, lines 88-102: transcribe_audio returns
TranscribeDone ==
    /\ pc = "Transcribing"
    /\ \E o \in SttOutcomes :
           LET t == transcribe_audio(AudioData(turn.source), AudioPath(turn.source), o)
               next == IF t.raised THEN "Idle" ELSE AfterTranscribe(t.text)
               how == IF t.raised THEN "voice_error" ELSE "empty_transcript"
           IN  /\ turn' = [turn EXCEPT
                      !.completed = @ + 1,
                      !.transcribed = ~t.raised,
                      !.stt_raised = t.engine_called /\ o.raised,
                      !.text = t.text,
                      !.stages = IF next = "Idle" THEN @ ELSE Append(@, next),
                      !.llm_calls = IF next = "Generating" THEN @ + 1 ELSE @,
                      !.result = IF next = "Idle" THEN ReturnsNone ELSE @,
                      !.ended = IF next = "Idle" THEN how ELSE @]
               /\ Advance(next, how)
    /\ UNCHANGED << client_vars, device_id, save_recordings, adapter_call, startup >>

\* process_voice_input, lines 98-112: generate_response returns
GenerateDone ==
    /\ pc = "Generating"
    /\ \E o \in LoopEngineOutcomes :
           LET r == generate_response(conversation_history, turn.text, NoContext, o)
               next == AfterGenerate(r.ret)
           IN  /\ Appends(NoContext, o) => Len(log) < MaxLoopPairs
               /\ conversation_history' = r.history
               /\ log' = IF Appends(NoContext, o)
                         THEN Append(log, << turn.text, o.content_text >>)
                         ELSE log
               /\ last_call' =
                      [op |-> "generate", prompt |-> turn.text, context_in |-> NoContext,
                       outcome |-> o, ret |-> r.ret, context_out |-> r.context,
                       content |-> r.content, hist_before |-> conversation_history]
               /\ turn' = [turn EXCEPT
                      !.completed = @ + 1,
                      !.gen = GenKind(o),
                      !.response = r.ret,
                      !.stages = IF next = "Idle" THEN @ ELSE Append(@, next),
                      !.tts_calls = IF next = "Speaking" THEN @ + 1 ELSE @,
                      !.result = IF next = "Idle" THEN ReturnsNone ELSE @,
                      !.ended = IF next = "Idle" THEN "no_response" ELSE @]
               /\ Advance(next, "no_response")
    /\ UNCHANGED << device_id, save_recordings, adapter_call, startup >>

\* process_voice_input, lines 112-118: tts.speak(response), in its default buffered mode
SpeakDone ==
    /\ pc = "Speaking"
    /\ \E o \in SpeakOutcomes :
           LET r == speak(turn.response, FALSE, o.eng, o.play_ok)
           IN  /\ turn' = [turn EXCEPT
                      !.completed = @ + 1,
                      !.audio_failed = o.eng.raised \/ o.eng.breaks \/ ~o.play_ok,
                      !.spoken = r.played,
                      !.result = AfterSpeak(r.raised, turn.response),
                      !.ended = SpeakEnding(r)]
               /\ Advance("Idle", SpeakEnding(r))
    /\ UNCHANGED << client_vars, device_id, save_recordings, adapter_call, startup >>

\* a loop whose handler of line 146 goes on to the next iteration
InterruptSwallowed ==
    /\ session = "interactive"
    /\ InterruptibleAt(pc)
    /\ pc' = "Idle"
    /\ turn' = [turn EXCEPT !.ended = "interrupted"]
    /\ UNCHANGED << client_vars, device_id, save_recordings, session, exit_cause, farewells,
                    adapter_call, startup >>

\* Ctrl+C while start_interactive_mode runs: lines 146-148 and 157-158
Interrupt ==
    /\ session = "interactive"
    /\ InterruptibleAt(pc)
    /\ session' = "exited"
    /\ exit_cause' = "interrupt"
    /\ farewells' = farewells + 1
    /\ pc' = "Idle"
    /\ turn' = [turn EXCEPT !.ended = IF pc # "Idle" THEN "interrupted" ELSE @]
    /\ UNCHANGED << client_vars, device_id, save_recordings, adapter_call, startup >>

NextLoop ==
    \/ StartInteractive
    \/ BeginRecording
    \/ RecordingDone
    \/ PersistDone
    \/ DirectCall
    \/ TranscribeDone
    \/ GenerateDone
    \/ SpeakDone
    \/ Interrupt

SpecLoop == InitLoop /\ [][NextLoop]_vars

(***************************************************************************)
(* The program from its start: main() constructs the VoiceAssistant, whose *)
(* _initialize_components builds the recognition adapter, the Response     *)
(* Engine client and the synthesis adapter in that order, and then runs    *)
(* the interactive loop or processes a file.  A constructor that raises    *)
(* ends the program (main.py:70-72 and 204-206).                           *)
(***************************************************************************)
InitMain ==
    /\ conversation_history = << >>
    /\ log = << >>
    /\ last_call = NoCall
    /\ device_id = NoDevice
    /\ save_recordings = TRUE
    /\ session = "unbuilt"
    /\ pc = "Idle"
    /\ turn = NoTurn
    /\ exit_cause = "none"
    /\ farewells = 0
    /\ adapter_call = NoAdapterCall
    /\ \E google_key \in BOOLEAN, eleven_key \in BOOLEAN :
           startup = NotConstructed(google_key, eleven_key)

\* main.py:55, WhisperSTT.__init__: whisper.load_model, then the device is resolved
ConstructStt ==
    /\ session = "unbuilt"
    /\ startup.stage = "stt"
    /\ \E load_ok \in BOOLEAN, q \in StartupQueries :
           IF load_ok
           THEN /\ device_id' = _find_working_device(q).device
                /\ startup' = [startup EXCEPT !.stage = "llm",
                                              !.components = Append(@, "stt"),
                                              !.model_loads = @ + 1,
                                              !.probes = @ + 1]
                /\ UNCHANGED session
           ELSE /\ startup' = [startup EXCEPT !.model_loads = @ + 1, !.error = "stt"]
                /\ session' = "failed"
                /\ UNCHANGED device_id
    /\ UNCHANGED << client_vars, save_recordings, pc, turn, exit_cause, farewells,
                    adapter_call >>

\* main.py:59, GemmaClient.__init__, lines 22-36: the key check, then the empty history
ConstructLlm ==
    /\ session = "unbuilt"
    /\ startup.stage = "llm"
    /\ IF startup.google_key
       THEN /\ startup' = [startup EXCEPT !.stage = "tts", !.components = Append(@, "llm")]
            /\ conversation_history' = << >>
            /\ UNCHANGED session
       ELSE /\ startup' = [startup EXCEPT !.error = "llm_key"]
            /\ session' = "failed"
            /\ UNCHANGED conversation_history
    /\ UNCHANGED << log, last_call, device_id, save_recordings, pc, turn, exit_cause,
                    farewells, adapter_call >>

\* main.py:63-66, ElevenLabsTTS.__init__, lines 25-37: the key check
ConstructTts ==
    /\ session = "unbuilt"
    /\ startup.stage = "tts"
    /\ IF startup.eleven_key
       THEN /\ startup' = [startup EXCEPT !.stage = "built", !.components = Append(@, "tts")]
            /\ session' = "ready"
       ELSE /\ startup' = [startup EXCEPT !.error = "tts_key"]
            /\ session' = "failed"
    /\ UNCHANGED << client_vars, device_id, save_recordings, pc, turn, exit_cause,
                    farewells, adapter_call >>

NextMain == ConstructStt \/ ConstructLlm \/ ConstructTts \/ NextLoop

SpecMain == InitMain /\ [][NextMain]_vars

(***************************************************************************)
(* Helpers of the properties.                                              *)
(***************************************************************************)
Min(a, b) == IF a <= b THEN a ELSE b

\* the (user text, model text) pairs of an even-length history, in order
PairsOf(h) == [k \in 1..(Len(h) \div 2) |-> << h[2 * k - 1].text, h[2 * k].text >>]

\* s is t with some elements left out, the order kept
RECURSIVE IsSubsequence(_, _)
IsSubsequence(s, t) ==
    IF s = << >> THEN TRUE
    ELSE IF t = << >> THEN FALSE
    ELSE IF Head(s) = Head(t) THEN IsSubsequence(Tail(s), Tail(t))
    ELSE IsSubsequence(s, Tail(t))

\* the last call was a generate_response in which the engine raised or gave no text
GenerationFailed ==
    /\ last_call.op = "generate"
    /\ (last_call.outcome.raised \/ ~Truthy(last_call.outcome.content_text))

\* the last call was a generate_response in which the engine gave text
GenerationSucceeded ==
    /\ last_call.op = "generate"
    /\ ~last_call.outcome.raised
    /\ Truthy(last_call.outcome.content_text)

\* conversation_history is hist_before with exactly the pair appended, then trimmed
AppendedOnePair(h, before, prompt, reply) ==
    /\ Len(h) >= 2
    /\ h[Len(h) - 1] = UserEntry(prompt)
    /\ h[Len(h)] = ModelEntry(reply)
    /\ Len(h) = Min(Len(before) + 2, 2 * max_history)
    /\ SubSeq(h, 1, Len(h) - 2) = LastN(before, Len(h) - 2)

(***************************************************************************)
(* C1: after any sequence of generate_response calls (succeeding, raising  *)
(* or returning no text, with or without a context) and clears, the        *)
(* history never holds more than 2 x max_history entries.                  *)
(***************************************************************************)
C1_HistoryBounded == Len(conversation_history) <= 2 * max_history

\* the cap was reached and a pair was evicted to keep it
C1_Witness ==
    /\ Len(conversation_history) = 2 * max_history
    /\ Len(log) > max_history

(***************************************************************************)
(* C2: between calls the history is made of complete pairs: its length is  *)
(* even, entry 2k-1 is a user entry and entry 2k the model entry answering *)
(* it, and the pairs are pairs of turns that succeeded, in the order in    *)
(* which they succeeded; no user-only entry is left behind, also after a   *)
(* trim and after a failed generation.                                     *)
(***************************************************************************)
C2_CompletePairs ==
    /\ Len(conversation_history) % 2 = 0
    /\ \A i \in 1..Len(conversation_history) :
           conversation_history[i].role = (IF i % 2 = 1 THEN "user" ELSE "model")
    /\ IsSubsequence(PairsOf(conversation_history), log)

\* a failed generation on a trimmed (full) history
C2_Witness ==
    /\ GenerationFailed
    /\ Len(log) > max_history
    /\ Len(conversation_history) = 2 * max_history

C9_Original ==
    GenerationSucceeded =>
        AppendedOnePair(conversation_history, last_call.hist_before,
                        last_call.prompt, last_call.outcome.content_text)

(***************************************************************************)
(* C9, amended: a successful generate_response call made with no context   *)
(* or an empty one appends exactly one pair, the prompt and the engine's   *)
(* text as received, and trims to the cap; a successful call made with a   *)
(* non-empty context leaves the history as it was.                         *)
(***************************************************************************)
C9_AppendsUnlessContext ==
    GenerationSucceeded =>
        IF ContextTruthy(last_call.context_in)
        THEN conversation_history = last_call.hist_before
        ELSE AppendedOnePair(conversation_history, last_call.hist_before,
                             last_call.prompt, last_call.outcome.content_text)

\* a success with an empty-list context on a non-empty history
C9_Witness ==
    /\ GenerationSucceeded
    /\ last_call.context_in = Context(<< >>)
    /\ Truthy(last_call.hist_before)
    /\ Len(conversation_history) = Len(last_call.hist_before) + 2

(***************************************************************************)
(* C10: eviction is first-in first-out by pair: after n successful turns   *)
(* since the last clear, the history is the most recent min(n,             *)
(* max_history) pairs in their original order.                             *)
(***************************************************************************)
C10_FifoEviction ==
    /\ Len(conversation_history) % 2 = 0
    /\ PairsOf(conversation_history) = LastN(log, Min(Len(log), max_history))

\* a pair was evicted, and it differs from the oldest pair that was kept
C10_Witness ==
    /\ Len(log) > max_history
    /\ log[Len(log) - max_history] # log[Len(log) - max_history + 1]

(***************************************************************************)
(* Helpers of the session-level properties.                                *)
(***************************************************************************)
\* the stages a turn goes through, by its audio source
StageOrder(source, save) ==
    IF source = "mic"
    THEN IF save
         THEN << "Recording", "Persisting", "Transcribing", "Generating", "Speaking" >>
         ELSE << "Recording", "Transcribing", "Generating", "Speaking" >>
    ELSE << "Transcribing", "Generating", "Speaking" >>

IsPrefix(s, t) == Len(s) <= Len(t) /\ s = SubSeq(t, 1, Len(s))

\* the engine raised or gave no text in the current turn
TurnGenerationFailed == turn.gen \in {"raised", "no_text"}

\* the ways a turn fails
FailureKinds ==
    {"device_unavailable", "capture_error", "persist_error", "empty_transcript",
     "no_response", "synthesis_failed"}

(***************************************************************************)
(* C4 as claimed: when the engine raises or returns no text in a turn, the *)
(* turn is aborted: speak is not invoked, nothing is played, the turn is   *)
(* back at Idle and process_voice_input returns None.                      *)
(***************************************************************************)
C4_FailedGenerationAbortsTurn ==
    TurnGenerationFailed =>
        /\ turn.tts_calls = 0
        /\ ~turn.spoken
        /\ pc = "Idle"
        /\ turn.result = ReturnsNone

(***************************************************************************)
(* C5: in a turn whose transcript is empty (no speech, or a transcription  *)
(* failure absorbed as the empty text) generate_response is not called,    *)
(* speak is not called, and the turn is over at Idle with                  *)
(* process_voice_input returning None.                                     *)
(***************************************************************************)
C5_EmptyTranscriptStopsTurn ==
    (turn.transcribed /\ ~Truthy(turn.text)) =>
        /\ turn.llm_calls = 0
        /\ turn.tts_calls = 0
        /\ turn.gen = "none"
        /\ pc = "Idle"
        /\ turn.result = ReturnsNone

\* an empty transcript in a recorded turn of a session that has history
C5_Witness ==
    /\ turn.transcribed
    /\ ~Truthy(turn.text)
    /\ turn.source = "mic"
    /\ session = "interactive"
    /\ Truthy(conversation_history)

(***************************************************************************)
(* C6 as claimed: the loop is left only at a turn boundary: when           *)
(* start_interactive_mode has returned, every stage the last turn entered  *)
(* ran to its end.                                                         *)
(***************************************************************************)
C6_Original == session = "exited" => turn.completed = Len(turn.stages)

(***************************************************************************)
(* C6, amended: an interrupt ends the interactive loop as soon as it is    *)
(* delivered, at a turn boundary or mid-turn; the stage in progress is cut *)
(* short and the rest of the turn does not run (a reply that was generated *)
(* and appended to the history is then not spoken to its end, and          *)
(* process_voice_input does not return).                                   *)
(***************************************************************************)
C6_InterruptCutsTurn ==
    /\ session = "interactive" => ENABLED Interrupt
    /\ (session = "exited" /\ turn.ended = "interrupted") =>
           /\ turn.completed = Len(turn.stages) - 1
           /\ turn.stages[Len(turn.stages)] = "Speaking" =>
                  (~turn.spoken /\ ~turn.result.returned)

\* interrupted while speaking a reply that is already in the history
C6_Witness ==
    /\ session = "exited"
    /\ turn.ended = "interrupted"
    /\ turn.stages # << >>
    /\ turn.stages[Len(turn.stages)] = "Speaking"
    /\ turn.gen = "text"
    /\ Truthy(conversation_history)
    /\ conversation_history[Len(conversation_history)].text = << " ", "x" >>

(***************************************************************************)
(* C7: the stages of a turn occur in the order Recording, (persisting the  *)
(* recording,) Transcribing, Generating, Speaking: each stage starts only  *)
(* when the one before it has ended, none is entered twice, the language   *)
(* model is called only after a transcript was produced and speak only     *)
(* after a reply was returned, and a recording starts only from Idle.  A   *)
(* turn with pre-supplied audio starts at Transcribing, with no recording  *)
(* and no persist call.                                                    *)
(***************************************************************************)
C7_StagesInOrder ==
    /\ IsPrefix(turn.stages, StageOrder(turn.source, save_recordings))
    /\ pc # "Idle" =>
           /\ turn.stages # << >>
           /\ pc = turn.stages[Len(turn.stages)]
           /\ turn.completed = Len(turn.stages) - 1
    /\ (pc = "Idle" /\ turn.ended # "interrupted") => turn.completed = Len(turn.stages)
    /\ turn.rec_engine_calls <= 1 /\ turn.stt_calls <= 1
    /\ turn.llm_calls <= 1 /\ turn.tts_calls <= 1
    /\ turn.llm_calls = 1 => (turn.transcribed /\ Truthy(turn.text))
    /\ turn.tts_calls = 1 => (turn.gen # "none" /\ Truthy(turn.response))
    /\ turn.source \in PreSupplied =>
           (turn.rec_engine_calls = 0 /\ turn.save_calls = 0)

\* a recorded turn that went through every stage, after an earlier turn
C7_Witness ==
    /\ turn.source = "mic"
    /\ turn.stages = << "Recording", "Persisting", "Transcribing", "Generating", "Speaking" >>
    /\ turn.completed = 5
    /\ turn.prev_ended = "capture_error"

(***************************************************************************)
(* C8: no per-turn failure ends the interactive loop: after a turn that    *)
(* failed (device unresolved, capture error, empty transcript, generation  *)
(* failure, synthesis or playback failure) the loop is at its head and     *)
(* starts another turn; it is left only on an interrupt.                   *)
(***************************************************************************)
C8_LoopSurvivesFailures ==
    /\ session = "exited" => exit_cause = "interrupt"
    /\ (session = "interactive" /\ pc = "Idle") => ENABLED BeginRecording
    /\ (session # "exited"
        /\ (turn.ended \in FailureKinds \/ (TurnGenerationFailed /\ turn.ended = "done"))) =>
           (pc = "Idle" /\ (turn.source = "mic" => session = "interactive"))

\* a new recording runs after a turn in which the engine raised and playback failed
C8_Witness ==
    /\ session = "interactive"
    /\ pc = "Recording"
    /\ turn.prev_ended = "synthesis_failed"
    /\ turn.prev_gen = "raised"

(***************************************************************************)
(* C11: what generate_response hands to the engine is the prior turns (the *)
(* non-empty context when one is given, the history otherwise) in order,   *)
(* followed by the new user prompt, whenever the history is non-empty or a *)
(* non-empty context is given; it is the bare prompt otherwise.  So the    *)
(* second of two successful calls without context sends the first pair     *)
(* ahead of the second prompt.                                             *)
(***************************************************************************)
C11_ContentSent ==
    last_call.op = "generate" =>
        LET given == ContextTruthy(last_call.context_in)
            prior == IF given THEN last_call.context_in.items ELSE last_call.hist_before
        IN  IF given \/ Truthy(last_call.hist_before)
            THEN /\ ~last_call.content.bare
                 /\ last_call.content.messages = Append(prior, UserEntry(last_call.prompt))
            ELSE /\ last_call.content.bare
                 /\ last_call.content.prompt = last_call.prompt

\* the second of two successful calls without context carried the first pair
C11_Witness ==
    /\ GenerationSucceeded
    /\ last_call.context_in = NoContext
    /\ Len(log) = 2
    /\ last_call.content.messages =
           << UserEntry(log[1][1]), ModelEntry(log[1][2]), UserEntry(log[2][1]) >>

(***************************************************************************)
(* C12 as claimed: generate_response returns normally when the engine      *)
(* fails, and what it returns then differs from everything it can return   *)
(* when the engine gives text, so that a caller can tell the failure.      *)
(***************************************************************************)
C12_FailureDistinguishable ==
    GenerationFailed =>
        \A o \in RichEngineOutcomes :
            (~o.raised /\ Truthy(o.content_text)) =>
                generate_response(last_call.hist_before, last_call.prompt,
                                  last_call.context_in, o).ret # last_call.ret

\* the ways a turn is aborted before a reply is spoken
AbortedKinds ==
    {"device_unavailable", "capture_error", "persist_error", "empty_transcript",
     "no_response"}

(***************************************************************************)
(* C13 as claimed: conversation_history is changed only by a step of       *)
(* generate_response in which the engine gave text, and no step that ends  *)
(* a turn as aborted (unresolved device, capture error, empty transcript,  *)
(* no response generated) changes it.                                      *)
(***************************************************************************)
C13_OnlySuccessPathWrites ==
    [][ /\ (conversation_history' # conversation_history =>
               (pc = "Generating" /\ GenerationSucceeded'))
        /\ ((turn' # turn /\ turn'.ended \in AbortedKinds) =>
               conversation_history' = conversation_history) ]_vars

(***************************************************************************)
(* C14: when the synthesis engine or the player fails in a turn whose      *)
(* generation gave text, process_voice_input still returns the reply text, *)
(* the turn is back at Idle, the history ends with the turn's prompt and   *)
(* the engine's reply (of which the returned text is the stripped form),   *)
(* and the session has not exited because of it.                           *)
(***************************************************************************)
C14_AudioFailureKeepsReply ==
    (turn.audio_failed /\ turn.gen = "text") =>
        /\ pc = "Idle"
        /\ turn.result = Returns(turn.response)
        /\ Truthy(turn.response)
        /\ ~turn.spoken
        /\ Len(conversation_history) >= 2
        /\ conversation_history[Len(conversation_history) - 1] = UserEntry(turn.text)
        /\ conversation_history[Len(conversation_history)] =
               ModelEntry(last_call.outcome.content_text)
        /\ Strip(last_call.outcome.content_text) = turn.response
        /\ (turn.source = "mic" /\ session # "exited") => session = "interactive"
        /\ session = "exited" => exit_cause = "interrupt"

\* the loop records again after a turn whose reply was generated but not played
C14_Witness ==
    /\ session = "interactive"
    /\ pc = "Recording"
    /\ turn.prev_ended = "synthesis_failed"
    /\ turn.prev_gen = "text"
    /\ Len(conversation_history) = 2

(***************************************************************************)
(* C20: when the recognition engine raises, transcribe_audio does not      *)
(* raise and gives the empty transcript, and the turn ends as it does for  *)
(* silence: process_voice_input returns None at the empty-transcript       *)
(* check, the Response Engine and the synthesis adapter are not called,    *)
(* and the loop goes on.                                                   *)
(***************************************************************************)
C20_EngineErrorIsSilence ==
    turn.stt_raised =>
        /\ turn.transcribed
        /\ turn.text = EmptyText
        /\ turn.ended = "empty_transcript"
        /\ turn.result = ReturnsNone
        /\ turn.llm_calls = 0
        /\ turn.tts_calls = 0
        /\ pc = "Idle"
        /\ session = "exited" => exit_cause = "interrupt"

\* a recorded turn in which the recognition engine raised has ended, loop still running
C20_Witness ==
    /\ turn.stt_raised
    /\ turn.source = "mic"
    /\ turn.ended = "empty_transcript"
    /\ session = "interactive"

\* the last direct adapter call was a call of the synthesis adapter
SynthesisCalled == adapter_call.op \in {"text_to_speech", "speak"}

\* the text handed to the last adapter call is empty or whitespace only
BlankText == ~Truthy(Strip(adapter_call.text))

(***************************************************************************)
(* C15 as claimed: no call of text_to_speech or speak, buffered or         *)
(* streamed, lets an exception reach its caller, whatever the text and     *)
(* whatever the engine does; when the engine raises the result is None.    *)
(***************************************************************************)
C15_SynthesisNeverRaises ==
    SynthesisCalled =>
        /\ ~adapter_call.raised
        /\ adapter_call.engine_raised => adapter_call.ret = NoAudio

(***************************************************************************)
(* C16 as claimed: for empty or whitespace-only text, text_to_speech and   *)
(* speak, buffered or streamed, give the null result without calling the   *)
(* synthesis engine.                                                       *)
(***************************************************************************)
C16_BlankTextSkipsEngine ==
    (SynthesisCalled /\ BlankText) =>
        /\ adapter_call.engine_calls = 0
        /\ adapter_call.ret = NoAudio
        /\ ~adapter_call.raised

\* a buffered text_to_speech call on non-blank text that met no failure
BufferedSucceeded ==
    /\ adapter_call.op = "text_to_speech"
    /\ ~adapter_call.stream_audio
    /\ ~BlankText
    /\ ~adapter_call.engine_raised
    /\ ~adapter_call.breaks
    /\ adapter_call.file_ok

(***************************************************************************)
(* C17 as claimed: a buffered text_to_speech on non-blank text calls the   *)
(* engine exactly once; with a save_path the audio is written to the file  *)
(* and the call returns None, without one it returns the whole payload.    *)
(***************************************************************************)
C17_BufferedSynthesis ==
    /\ (adapter_call.op = "text_to_speech" /\ ~adapter_call.stream_audio /\ ~BlankText) =>
           adapter_call.engine_calls = 1
    /\ (BufferedSucceeded /\ adapter_call.save_path # "None") =>
           /\ adapter_call.file = adapter_call.chunks
           /\ adapter_call.ret = NoAudio
    /\ (BufferedSucceeded /\ adapter_call.save_path = "None") =>
           /\ ~adapter_call.ret.none
           /\ adapter_call.ret.chunks = adapter_call.chunks
           /\ adapter_call.file = << >>

\* a streamed call in which the engine handed over its chunk iterator
StreamObtained ==
    /\ SynthesisCalled
    /\ adapter_call.stream_audio
    /\ adapter_call.engine_calls = 1
    /\ ~adapter_call.engine_raised

\* the chunks each sink pulled, by sink
Pulled(sink) ==
    IF sink = "file" THEN adapter_call.file
    ELSE IF sink = "memory" THEN adapter_call.memory
    ELSE adapter_call.player

(***************************************************************************)
(* C18: in streamed mode the engine is called at most once and its chunk   *)
(* iterator is pulled by at most one sink, exactly one unless the output   *)
(* file cannot be opened: the file writer when text_to_speech is given a   *)
(* save_path, the in-memory join when it is not, the player in speak.      *)
(* That sink gets the chunks in the order the engine produced them, once,  *)
(* and the other sinks get nothing.                                        *)
(***************************************************************************)
C18_StreamHasOneSink ==
    (SynthesisCalled /\ adapter_call.stream_audio) =>
        /\ adapter_call.engine_calls <= 1
        /\ Cardinality(adapter_call.sinks) <= 1
        /\ StreamObtained =>
               LET sink == IF adapter_call.op = "speak" THEN "player"
                           ELSE IF adapter_call.save_path # "None" THEN "file"
                           ELSE "memory"
               IN  /\ adapter_call.sinks \subseteq {sink}
                   /\ adapter_call.file_ok => adapter_call.sinks = {sink}
                   /\ \A k \in {"file", "memory", "player"} :
                          Pulled(k) = IF k \in adapter_call.sinks
                                      THEN adapter_call.chunks ELSE << >>

\* a streamed text_to_speech with a save_path wrote both chunks, in order, to the file only
C18_Witness ==
    /\ adapter_call.op = "text_to_speech"
    /\ adapter_call.stream_audio
    /\ adapter_call.save_path # "None"
    /\ adapter_call.file = << "c1", "c2" >>
    /\ adapter_call.sinks = {"file"}

(***************************************************************************)
(* C19 as claimed: transcribe_audio called with neither audio_data nor     *)
(* audio_path raises to its caller and gives no transcript value.          *)
(***************************************************************************)
C19_NoInputRaises ==
    (/\ adapter_call.op = "transcribe_audio"
     /\ adapter_call.audio_data = "None"
     /\ adapter_call.audio_path = "None") =>
        adapter_call.raised

(***************************************************************************)
(* C21: record_audio on an adapter whose device_id is None raises, and     *)
(* sd.rec has not been called when it does.                                *)
(***************************************************************************)
C21_NullDeviceRaisesFirst ==
    (adapter_call.op = "record_audio" /\ adapter_call.device = NoDevice) =>
        /\ adapter_call.raised
        /\ adapter_call.engine_calls = 0
        /\ adapter_call.recorded = "None"

\* record_audio was called with no device while the recording engine would have failed
C21_Witness ==
    /\ adapter_call.op = "record_audio"
    /\ adapter_call.device = NoDevice
    /\ adapter_call.engine_raised
    /\ adapter_call.raised

(***************************************************************************)
(* C22 as claimed: when sd.rec or sd.wait raises, record_audio raises to   *)
(* its caller and returns no value.                                        *)
(***************************************************************************)
C22_CaptureErrorRaises ==
    (/\ adapter_call.op = "record_audio"
     /\ adapter_call.device # NoDevice
     /\ adapter_call.engine_raised) =>
        adapter_call.raised

\* the recording stage of the current interactive turn failed
RecordingFailed ==
    /\ turn.source = "mic"
    /\ (turn.ended = "device_unavailable" \/ turn.rec_raised)

(***************************************************************************)
(* C23: when the recording stage of an interactive turn fails, because the *)
(* device is unresolved or because the recording call raised, the turn is  *)
(* over at that stage: nothing is persisted, and transcribe_audio,         *)
(* generate_response and speak are not called in that turn.                *)
(***************************************************************************)
C23_FailedRecordingAbortsTurn ==
    RecordingFailed =>
        /\ pc = "Idle"
        /\ turn.ended \in {"device_unavailable", "capture_error"}
        /\ turn.save_calls = 0
        /\ turn.stt_calls = 0
        /\ turn.llm_calls = 0
        /\ turn.tts_calls = 0
        /\ \A i \in 1..Len(turn.stages) : turn.stages[i] = "Recording"
        /\ turn.result = NotReturned

\* a capture error ended a turn of a session that persists its recordings
C23_Witness ==
    /\ turn.source = "mic"
    /\ turn.rec_raised
    /\ turn.rec_engine_calls = 1
    /\ save_recordings
    /\ session = "interactive"

\* the stage was entered in the current turn
Entered(stage) == \E i \in 1..Len(turn.stages) : turn.stages[i] = stage

(***************************************************************************)
(* C27: in an interactive turn of a session with save_recordings on, the   *)
(* transcription of a recording begins only after save_audio was called    *)
(* for it, once, so the persist is made whether the transcript turns out   *)
(* empty, failed or non-empty; with save_recordings off save_audio is      *)
(* never called.                                                           *)
(***************************************************************************)
C27_PersistBeforeTranscription ==
    /\ ~save_recordings => (turn.save_calls = 0 /\ ~Entered("Persisting"))
    /\ (save_recordings /\ turn.source = "mic" /\ Entered("Transcribing")) =>
           /\ turn.save_calls = 1
           /\ Len(turn.stages) >= 3
           /\ turn.stages[1] = "Recording"
           /\ turn.stages[2] = "Persisting"
           /\ turn.stages[3] = "Transcribing"
    /\ (save_recordings /\ pc = "Persisting") =>
           (turn.stt_calls = 0 /\ ~turn.rec_raised /\ turn.rec_engine_calls = 1)
    /\ (save_recordings /\ turn.source = "mic" /\ turn.stt_calls = 0) => ~turn.transcribed

\* a persisted recording whose transcription then failed in the engine
C27_Witness ==
    /\ save_recordings
    /\ turn.source = "mic"
    /\ turn.save_calls = 1
    /\ turn.stt_raised
    /\ turn.ended = "empty_transcript"

\* positions of the enumerated devices that have an input channel and a working trial
Usable(devices) ==
    { i \in 1..Len(devices) : devices[i].inputs > 0 /\ devices[i].trial_ok }

\* the position up to which the resolver goes through the enumeration
LastVisited(devices) ==
    IF Usable(devices) = { } THEN Len(devices)
    ELSE CHOOSE i \in Usable(devices) : \A j \in Usable(devices) : i <= j

(***************************************************************************)
(* C25: _find_working_device returns the id of the first enumerated device *)
(* that has an input channel and whose trial recording works, and None     *)
(* exactly when there is none.  The devices it trials are, in enumeration  *)
(* order, the devices with an input channel up to the one it returns: no   *)
(* device without input channel and no device after the first success.     *)
(* With no device enumerated it returns None and trials nothing.           *)
(***************************************************************************)
C25_FirstWorkingDevice ==
    (adapter_call.op = "_find_working_device" /\ ~adapter_call.engine_raised) =>
        LET devices == adapter_call.devices
            trials == adapter_call.trials
            last == LastVisited(devices)
        IN  /\ (adapter_call.device = NoDevice) <=> (Usable(devices) = { })
            /\ Usable(devices) # { } => adapter_call.device = last - 1
            /\ \A k \in 1..Len(trials) :
                   /\ trials[k] + 1 \in 1..last
                   /\ devices[trials[k] + 1].inputs > 0
                   /\ k > 1 => trials[k - 1] < trials[k]
            /\ \A i \in 1..last :
                   devices[i].inputs > 0 => \E k \in 1..Len(trials) : trials[k] = i - 1
            /\ devices = << >> => (adapter_call.device = NoDevice /\ trials = << >>)

\* the third device is returned after a device without input was skipped and a
\* trial on the second failed
C25_Witness ==
    /\ adapter_call.op = "_find_working_device"
    /\ Len(adapter_call.devices) = 3
    /\ adapter_call.devices[1].inputs = 0
    /\ adapter_call.devices[1].trial_ok
    /\ adapter_call.device = 2
    /\ adapter_call.trials = << 1, 2 >>

(***************************************************************************)
(* C24 as claimed: when construction fails because the GOOGLE_API_KEY or   *)
(* the ELEVENLABS_API_KEY is missing, no component has been constructed,   *)
(* the recognition model has not been loaded, no device probe has run, and *)
(* no turn is started.                                                     *)
(***************************************************************************)
C24_MissingKeyFailsFirst ==
    startup.error \in {"llm_key", "tts_key"} =>
        /\ session = "failed"
        /\ startup.components = << >>
        /\ startup.model_loads = 0
        /\ startup.probes = 0
        /\ turn = NoTurn
        /\ pc = "Idle"

(***************************************************************************)
(* C26: device_id is resolved once, when the recognition adapter is        *)
(* constructed, and in a session a step changes it only if that step is a  *)
(* recording attempt failing on the device; no successful recording and    *)
(* no step of persisting, transcription, generation or speaking changes it.*)
(***************************************************************************)
C26_DeviceCached ==
    [][ /\ startup'.probes <= 1
        /\ device_id' # device_id =>
               \/ (session = "unbuilt" /\ startup.stage = "stt" /\ startup'.probes = 1)
               \/ (/\ session = "interactive"
                   /\ pc \in {"Idle", "Recording"}
                   /\ turn'.ended \in {"device_unavailable", "capture_error"}) ]_vars

\* the device resolved at startup records again after a capture error and a full turn
C26_Witness ==
    /\ session = "interactive"
    /\ pc = "Recording"
    /\ turn.prev_ended = "capture_error"
    /\ device_id = 1
    /\ startup.probes = 1
    /\ Len(conversation_history) = 2

(***************************************************************************)
(* C29: once an interrupt has been delivered to the running loop, the loop *)
(* is over: start_interactive_mode has returned with its farewell printed  *)
(* exactly once, no turn is in progress, and no step is possible any more, *)
(* so no recording starts and no transcription, generation or synthesis    *)
(* call is made afterwards.                                                *)
(***************************************************************************)
C29_InterruptTerminatesLoop ==
    /\ (exit_cause = "interrupt" \/ turn.ended = "interrupted") =>
           /\ session = "exited"
           /\ exit_cause = "interrupt"
           /\ farewells = 1
           /\ pc = "Idle"
           /\ ~ENABLED NextLoop
    /\ session # "exited" => farewells = 0

\* the loop was interrupted while the recognition engine worked on a persisted recording
C29_Witness ==
    /\ exit_cause = "interrupt"
    /\ farewells = 1
    /\ turn.ended = "interrupted"
    /\ turn.stages = << "Recording", "Persisting", "Transcribing" >>
    /\ turn.llm_calls = 0

WellFormed(output) == DOMAIN output = {"title", "content", "performance_metrics"}

\* two business_info agree on what the fallback reads
SameNames(a, b) ==
    /\ GetOr(a.name, "our business") = GetOr(b.name, "our business")
    /\ ProductName(a) = ProductName(b)

(***************************************************************************)
(* C28: generate_content returns, and does not raise, a record with title, *)
(* content and performance_metrics whether the engine gives text, gives no *)
(* candidate or raises.  When the engine fails the record is the fallback  *)
(* copy: the same for every business_info with the same business name and *)
(* product name, every target audience and every failure of the engine,    *)
(* given the content type; and the only engine call of the invocation is   *)
(* the one that failed.                                                    *)
(***************************************************************************)
C28_BatchAlwaysWellFormed ==
    adapter_call.op = "generate_content" =>
        /\ ~adapter_call.raised
        /\ WellFormed(adapter_call.output)
        /\ adapter_call.fallback <=> adapter_call.engine_raised
        /\ adapter_call.engine_raised =>
               /\ adapter_call.engine_calls = 1
               /\ \A b \in BusinessInfos, a \in Audiences, o \in BatchOutcomes :
                      (BatchFailed(o) /\ SameNames(b, adapter_call.business_info)) =>
                          generate_content(b, adapter_call.content_type, a, o).output =
                              adapter_call.output

\* the engine raised for a flyer of a business that gave its tone and a product name
C28_Witness ==
    /\ adapter_call.op = "generate_content"
    /\ adapter_call.batch_outcome = BatchRaises("quota")
    /\ adapter_call.content_type = "flyer"
    /\ adapter_call.business_info.tone = "formal"
    /\ adapter_call.output.title = << "Cafe", " special promotion" >>
    /\ adapter_call.output.content[2] = "Latte"

====
